---- MODULE Spec2Model ----
(***************************************************************************)
(* Model of stackoverflow-age-checker.js: an Express service with two      *)
(* lookup endpoints (by username, by user id), a root endpoint and a       *)
(* health endpoint, in front of the Stack Exchange users API.              *)
(*                                                                         *)
(* Representation                                                          *)
(*  - a string the code inspects character by character (a route           *)
(*    parameter) is a sequence of one-character strings;                   *)
(*  - a template literal is the sequence of its parts, an interpolated     *)
(*    route parameter being one part;                                      *)
(*  - an optional value (a field that may be undefined) is <<>> when       *)
(*    absent and <<v>> when present;                                       *)
(*  - an instant or a duration in milliseconds is a record [s, ms] worth   *)
(*    s*1000 + ms, 0 <= ms < 1000, because epoch milliseconds exceed the   *)
(*    integers of the model checker;                                       *)
(*  - one lookup request is followed from arrival to response; handlers    *)
(*    share no mutable state, so requests do not interact.                 *)
(***************************************************************************)
EXTENDS Integers, Sequences, FiniteSets, TLC

VARIABLES
    clock,      \* wall clock: milliseconds elapsed since ClockOrigin
    upstream,   \* state of the Stack Exchange API
    pc,         \* position of the lookup handler: idle, awaiting, done
    req,        \* the lookup request being handled: [route, key]
    outbound,   \* axios.get calls issued for the request, in order
    reply,      \* <<>> or <<outcome>>: what the awaited call settled with
    responses,  \* responses sent for the request, in order
    aux,        \* <<>> or <<r>>: last response of GET / or GET /health
    ageIn,      \* input of a direct call of the age functions
    ageOut      \* <<>> or <<r>>: result of that call

vars == <<clock, upstream, pc, req, outbound, reply, responses, aux, ageIn, ageOut>>

---------------------------------------------------------------------------
(* Bounds of the model *)

\* the epoch second the model's clock starts at
ClockOrigin == 1700000000
\* the clock advances in steps of TickMs milliseconds
TickMs == 500
\* the clock stops after MaxTicks steps
MaxTicks == 3
\* longest user_id route parameter
MaxIdLen == 2
\* most candidates in an upstream answer
MaxItems == 2
\* oldest account, in days, given to the age functions directly
MaxAgeDays == 800

---------------------------------------------------------------------------
(* Program constants *)

\* {1,40} in the username pattern
MaxUsernameLen == 40
\* 60 * 60 * 24 seconds: 1000 * 60 * 60 * 24 milliseconds
DaySeconds == 86400
DaysPerYear == 365
DaysPerMonth == 30

---------------------------------------------------------------------------
(* Characters and the two validation patterns *)

LowerCase == {"a","b","c","d","e","f","g","h","i","j","k","l","m",
              "n","o","p","q","r","s","t","u","v","w","x","y","z"}
UpperCase == {"A","B","C","D","E","F","G","H","I","J","K","L","M",
              "N","O","P","Q","R","S","T","U","V","W","X","Y","Z"}
\* \d without the u flag: the ASCII digits
Digit == {"0","1","2","3","4","5","6","7","8","9"}
\* \s: the ASCII members of the white-space class of a JavaScript pattern
WhiteSpace == {" ", "\t", "\n", "\r", "\f"}

\* [a-zA-Z0-9\s-]
UsernameChar == LowerCase \cup UpperCase \cup Digit \cup WhiteSpace \cup {"-"}

\* /^[a-zA-Z0-9\s-]{1,40}$/.test(username)
UsernamePattern(username) ==
    /\ Len(username) >= 1
    /\ Len(username) <= MaxUsernameLen
    /\ \A i \in 1..Len(username) : username[i] \in UsernameChar

\* variant: /^\d+$/, a leading zero passes
UserIdPatternAnyDigits(user_id) ==
    /\ Len(user_id) >= 1
    /\ \A i \in 1..Len(user_id) : user_id[i] \in Digit

\* /^[1-9]\d*$/.test(user_id)
UserIdPattern(user_id) ==
    /\ Len(user_id) >= 1
    /\ user_id[1] \in Digit \ {"0"}
    /\ \A i \in 2..Len(user_id) : user_id[i] \in Digit

---------------------------------------------------------------------------
(* Clock and the age functions *)

\* new Date(): the current instant
Now(c) == [s |-> ClockOrigin + (c \div 1000), ms |-> c % 1000]

\* new Date(createdAt * 1000)
DateOfEpochSeconds(createdAt) == [s |-> createdAt, ms |-> 0]

\* now - created, for a created with no millisecond part
DiffMs(now, created) == [s |-> now.s - created.s, ms |-> now.ms - created.ms]

\* Math.floor(diffMs / (1000 * 60 * 60 * 24)): the milliseconds below a
\* second never reach the next multiple of a day
FloorDays(diff) == diff.s \div DaySeconds

\* a % b of JavaScript: the sign of the dividend
JsRem(a, b) == IF a >= 0 THEN a % b ELSE -((-a) % b)

\* Math.floor(a / b) for b > 0
JsFloorDiv(a, b) == a \div b

\* the template literals of calculateAccountAge
RenderAge(years, months) ==
    IF years > 0
    THEN ToString(years) \o " years, " \o ToString(months) \o " months"
    ELSE ToString(months) \o " months"

\* calculateAgeDays(createdAt), the clock reading c
calculateAgeDays(createdAt, c) ==
    FloorDays(DiffMs(Now(c), DateOfEpochSeconds(createdAt)))

\* variant: months counted over all the days, not over the days past the
\* last whole year
calculateAccountAgeAllDays(createdAt, c) ==
    LET diffDays == FloorDays(DiffMs(Now(c), DateOfEpochSeconds(createdAt)))
        years == JsFloorDiv(diffDays, DaysPerYear)
        months == JsFloorDiv(diffDays, DaysPerMonth)
    IN RenderAge(years, months)

\* calculateAccountAge(createdAt), the clock reading c
calculateAccountAge(createdAt, c) ==
    LET diffDays == FloorDays(DiffMs(Now(c), DateOfEpochSeconds(createdAt)))
        years == JsFloorDiv(diffDays, DaysPerYear)
        months == JsFloorDiv(JsRem(diffDays, DaysPerYear), DaysPerMonth)
    IN RenderAge(years, months)

---------------------------------------------------------------------------
(* Upstream records and processUserData *)

\* a creation_date whose d-th day completes one second after ClockOrigin
CreatedDaysBefore(d) == ClockOrigin + 1 - d * DaySeconds

\* records of the users API under the filter the code sends; reputation is
\* the field whose absence makes processUserData throw
RawProfiles ==
    { [user_id |-> 1, display_name |-> "alice",
       creation_date |-> CreatedDaysBefore(DaysPerMonth),
       reputation |-> <<10>>,
       badge_counts |-> <<[gold |-> 1, silver |-> 2, bronze |-> 3]>>,
       is_employee |-> TRUE, about_me |-> <<"bio">>, location |-> <<"Lagos">>,
       profile_image |-> <<"https://i.example/1.png">>,
       link |-> <<"https://stackoverflow.com/users/1/alice">>],
      [user_id |-> 22, display_name |-> "alice b",
       creation_date |-> CreatedDaysBefore(400),
       reputation |-> <<0>>,
       badge_counts |-> <<>>,
       is_employee |-> FALSE, about_me |-> <<"">>, location |-> <<>>,
       profile_image |-> <<>>, link |-> <<>>],
      [user_id |-> 333, display_name |-> "alicia",
       creation_date |-> CreatedDaysBefore(DaysPerYear),
       reputation |-> <<>>,
       badge_counts |-> <<>>,
       is_employee |-> FALSE, about_me |-> <<>>, location |-> <<>>,
       profile_image |-> <<>>, link |-> <<>>] }

\* a || b on an optional string: the empty string is falsy too
OrElse(opt, dflt) == IF opt = <<>> \/ opt = <<"">> THEN dflt ELSE opt[1]

\* an Error object: message, and the response axios attaches to it
Thrown(message, response) == [message |-> message, response |-> response]

\* undefined.toString()
TypeErrorToString ==
    Thrown(<<"Cannot read properties of undefined (reading 'toString')">>, <<>>)

\* processUserData(user); the clock reads t1 in calculateAccountAge and t2
\* in calculateAgeDays.  estimated_creation_date (a locale rendering of
\* creation_date) is left out.  The result is the object, or the exception.
processUserData(user, t1, t2) ==
    LET counts == user.badge_counts
        totalPosts == IF counts = <<>> THEN 0
                      ELSE counts[1].gold + counts[1].silver + counts[1].bronze
    IN IF user.reputation = <<>>
       THEN [ok |-> FALSE, error |-> TypeErrorToString]
       ELSE [ok |-> TRUE,
             value |->
               [username |-> user.display_name,
                nickname |-> user.display_name,
                account_age |-> calculateAccountAge(user.creation_date, t1),
                age_days |-> calculateAgeDays(user.creation_date, t2),
                followers |-> ToString(user.reputation[1]),
                total_posts |-> totalPosts,
                verified |-> IF user.is_employee THEN "Stack Overflow Employee"
                             ELSE "Standard",
                description |-> OrElse(user.about_me, "N/A"),
                region |-> OrElse(user.location, "N/A"),
                user_id |-> ToString(user.user_id),
                avatar |-> OrElse(user.profile_image, "https://via.placeholder.com/50"),
                estimation_confidence |-> "High (exact match)",
                accuracy_range |-> "Second-level (API provides precise timestamp)",
                profile_link |-> OrElse(user.link,
                    "https://stackoverflow.com/users/" \o ToString(user.user_id))]]

---------------------------------------------------------------------------
(* The upstream API and the two fetch functions *)

UpstreamStates == {"available", "failing", "timing_out"}

RECURSIVE SeqsUpTo(_, _)
\* the sequences over S of length at most n
SeqsUpTo(S, n) ==
    IF n = 0 THEN {<<>>}
    ELSE LET shorter == SeqsUpTo(S, n - 1)
         IN shorter \cup {Append(q, x) : q \in shorter, x \in S}

ItemLists == SeqsUpTo(RawProfiles, MaxItems)

\* statuses axios rejects (validateStatus: outside 200..299)
ErrorStatuses == {400, 404, 429, 500, 503}

\* error bodies: none, or the JSON error object of the API
ErrorBodies == {"", "{error_id, error_message, error_name}"}

\* what axios.get settles with in each state of the upstream API: a 2xx
\* answer with or without an items array, a rejected status, a network
\* error, or the 5000 ms timeout
Outcomes(up) ==
    IF up = "available"
    THEN {[ok |-> TRUE, data |-> [items |-> l]] : l \in ItemLists}
         \cup {[ok |-> TRUE, data |-> [quota_remaining |-> 0]]}
    ELSE IF up = "failing"
    THEN {[ok |-> FALSE,
           error |-> Thrown(<<"Request failed with status code ", ToString(s)>>,
                            <<[status |-> s, data |-> d]>>)]
            : s \in ErrorStatuses, d \in ErrorBodies}
         \cup {[ok |-> FALSE, error |-> Thrown(<<"Network Error">>, <<>>)]}
    ELSE {[ok |-> FALSE, error |-> Thrown(<<"timeout of 5000ms exceeded">>, <<>>)]}

\* getStackOverflowProfileByUsername: response.data.items (may be
\* undefined), or the axios error rethrown
getStackOverflowProfileByUsername(outcome) ==
    IF outcome.ok
    THEN [ok |-> TRUE,
          value |-> IF "items" \in DOMAIN outcome.data
                    THEN <<outcome.data.items>> ELSE <<>>]
    ELSE [ok |-> FALSE, error |-> outcome.error]

\* getStackOverflowProfileById: response.data.items[0] (may be undefined),
\* a TypeError when items itself is undefined, or the axios error rethrown
getStackOverflowProfileById(outcome) ==
    IF outcome.ok
    THEN IF "items" \in DOMAIN outcome.data
         THEN [ok |-> TRUE,
               value |-> IF Len(outcome.data.items) >= 1
                         THEN <<outcome.data.items[1]>> ELSE <<>>]
         ELSE [ok |-> FALSE,
               error |-> Thrown(<<"Cannot read properties of undefined (reading '0')">>, <<>>)]
    ELSE [ok |-> FALSE, error |-> outcome.error]

---------------------------------------------------------------------------
(* The endpoint handlers *)

RECURSIVE Str(_)
\* the string a sequence of characters spells
Str(chars) == IF chars = <<>> THEN "" ELSE Head(chars) \o Str(Tail(chars))

\* res.status(code).json(body); res.json(body) sends 200
Response(code, body) == [status |-> code, body |-> body]

\* the axios.get of getStackOverflowProfileByUsername
UsernameCall(username) ==
    [url |-> "https://api.stackexchange.com/2.3/users?inname=",
     key |-> username, timeout |-> 5000, pagesize |-> <<5>>]

\* the axios.get of getStackOverflowProfileById
UserIdCall(user_id) ==
    [url |-> "https://api.stackexchange.com/2.3/users/",
     key |-> user_id, timeout |-> 5000, pagesize |-> <<>>]

\* the j-th clock read of a handler run that starts at c and sees the
\* clock step after its k-th read
ReadAt(c, k, j) == IF j <= k THEN c ELSE c + TickMs

\* variant: only an upstream 404 is answered 404
usernameCatchOnly404(error, username) ==
    IF error.response # <<>> /\ error.response[1].status = 404
    THEN Response(404, [error |-> <<"Stack Overflow user ", Str(username),
                                    " not found or inaccessible">>])
    ELSE Response(
           IF error.response # <<>> /\ error.response[1].status # 0
           THEN error.response[1].status ELSE 500,
           [error |-> IF error.message \in {<<>>, <<"">>}
                      THEN <<"Failed to fetch Stack Overflow data">>
                      ELSE error.message,
            details |-> IF error.response # <<>> /\ error.response[1].data # ""
                        THEN error.response[1].data
                        ELSE "No additional details"])

\* the catch clause of the username handler
usernameCatch(error, username) ==
    IF error.response # <<>> /\ error.response[1].status \in {404, 400}
    THEN Response(404, [error |-> <<"Stack Overflow user ", Str(username),
                                    " not found or inaccessible">>])
    ELSE Response(
           IF error.response # <<>> /\ error.response[1].status # 0
           THEN error.response[1].status ELSE 500,
           [error |-> IF error.message \in {<<>>, <<"">>}
                      THEN <<"Failed to fetch Stack Overflow data">>
                      ELSE error.message,
            details |-> IF error.response # <<>> /\ error.response[1].data # ""
                        THEN error.response[1].data
                        ELSE "No additional details"])

\* the catch clause of the user_id handler
userIdCatch(error, user_id) ==
    IF error.response # <<>> /\ error.response[1].status \in {404, 400}
    THEN Response(404, [error |-> <<"Stack Overflow user with ID ", Str(user_id),
                                    " not found or inaccessible">>])
    ELSE Response(
           IF error.response # <<>> /\ error.response[1].status # 0
           THEN error.response[1].status ELSE 500,
           [error |-> IF error.message \in {<<>>, <<"">>}
                      THEN <<"Failed to fetch Stack Overflow data">>
                      ELSE error.message,
            details |-> IF error.response # <<>> /\ error.response[1].data # ""
                        THEN error.response[1].data
                        ELSE "No additional details"])

\* variant: the first candidate keeps the confidence processUserData gave it
MarkMediumButFirst(results) ==
    [i \in 1..Len(results) |->
        IF i = 1 THEN results[i].value
        ELSE [results[i].value EXCEPT
                !.estimation_confidence = "Medium (multiple matches found)"]]

\* users.map(user => ({...processUserData(user), estimation_confidence: ...}))
\* once every processUserData has returned
MarkMedium(results) ==
    [i \in 1..Len(results) |->
        [results[i].value EXCEPT
            !.estimation_confidence = "Medium (multiple matches found)"]]

\* variant: !users alone, an empty list counts as a match
NoMatchUndefinedOnly(users) == users = <<>>

\* !users || users.length === 0
NoMatch(users) == users = <<>> \/ Len(users[1]) = 0

\* the username handler from the settling of the awaited call to its response
usernameAfterAwait(username, outcome, c, k) ==
    LET fetched == getStackOverflowProfileByUsername(outcome)
    IN IF ~fetched.ok THEN usernameCatch(fetched.error, username)
       ELSE IF NoMatch(fetched.value)
       THEN Response(404, [error |-> <<"Stack Overflow user ", Str(username),
                                       " not found">>])
       ELSE LET users == fetched.value[1]
                results == [i \in 1..Len(users) |->
                              processUserData(users[i], ReadAt(c, k, 2 * i - 1),
                                                        ReadAt(c, k, 2 * i))]
                failed == {i \in 1..Len(users) : ~results[i].ok}
                first == CHOOSE i \in failed : \A j \in failed : i <= j
            IN IF failed # {} THEN usernameCatch(results[first].error, username)
               ELSE IF Len(users) = 1 THEN Response(200, results[1].value)
               ELSE Response(200,
                      [users |-> MarkMedium(results),
                       note |-> "Multiple users found with similar names. Use the user_id or profile_link to select the correct user."])

\* the user_id handler from the settling of the awaited call to its response
userIdAfterAwait(user_id, outcome, c, k) ==
    LET fetched == getStackOverflowProfileById(outcome)
    IN IF ~fetched.ok THEN userIdCatch(fetched.error, user_id)
       ELSE IF fetched.value = <<>>
       THEN Response(404, [error |-> <<"Stack Overflow user with ID ", Str(user_id),
                                       " not found">>])
       ELSE LET result == processUserData(fetched.value[1], ReadAt(c, k, 1),
                                                            ReadAt(c, k, 2))
            IN IF result.ok THEN Response(200, result.value)
               ELSE userIdCatch(result.error, user_id)

\* how many times a handler run reads the clock: twice per record it
\* passes to processUserData
ClockReads(route, outcome) ==
    IF outcome.ok /\ "items" \in DOMAIN outcome.data
    THEN IF route = "username" THEN 2 * Len(outcome.data.items)
         ELSE IF Len(outcome.data.items) >= 1 THEN 2 ELSE 0
    ELSE 0

---------------------------------------------------------------------------
(* Requests *)

\* n copies of the letter a
Pad(n) == [i \in 1..n |-> "a"]

\* characters tried in a username: letters, a digit, the two separators the
\* pattern names, other white space, and characters outside the class
UsernameAlphabet == {"a", "Z", "7", " ", "-", "\t", "\n", "_"}

\* lengths around the upper limit of the pattern
PadLens == {0, MaxUsernameLen - 1, MaxUsernameLen}

\* :username as Express hands it over (decoded, never empty): one tried
\* character before or after a run of letters
UsernameInputs ==
    {Pad(n) \o <<ch>> : n \in PadLens, ch \in UsernameAlphabet}
    \cup {<<ch>> \o Pad(n) : n \in PadLens, ch \in UsernameAlphabet}

\* characters tried in a user_id
UserIdAlphabet == {"0", "1", "9", "a", "-"}

\* :user_id as Express hands it over
UserIdInputs == SeqsUpTo(UserIdAlphabet, MaxIdLen) \ {<<>>}

NoRequest == [route |-> "none", key |-> <<>>]

\* the readings of the clock
ClockValues == {n * TickMs : n \in 0..MaxTicks}

\* creation dates given to the age functions directly: up to MaxAgeDays
\* old, on and off a day boundary, and a few in the future
AgeCreationDates ==
    {CreatedDaysBefore(d) + o : d \in 0..MaxAgeDays, o \in {0, 1, DaySeconds \div 2}}

---------------------------------------------------------------------------
(* Initial state *)

Init ==
    /\ clock = 0
    /\ upstream \in UpstreamStates
    /\ pc = "idle"
    /\ req = NoRequest
    /\ outbound = <<>>
    /\ reply = <<>>
    /\ responses = <<>>
    /\ aux = <<>>
    /\ ageIn = CreatedDaysBefore(0)
    /\ ageOut = <<>>

---------------------------------------------------------------------------
(* Actions *)

\* time passes
Tick ==
    /\ clock + TickMs \in ClockValues
    /\ clock' = clock + TickMs
    /\ UNCHANGED <<upstream, pc, req, outbound, reply, responses, aux, ageIn, ageOut>>

\* the Stack Exchange API changes state
UpstreamChange ==
    /\ upstream' \in UpstreamStates \ {upstream}
    /\ UNCHANGED <<clock, pc, req, outbound, reply, responses, aux, ageIn, ageOut>>

\* variant: the upstream call is issued before the username is validated
GetUsernameFetchFirst(username) ==
    /\ pc = "idle"
    /\ req' = [route |-> "username", key |-> username]
    /\ outbound' = Append(outbound, UsernameCall(username))
    /\ IF username = <<>> \/ ~UsernamePattern(username)
       THEN /\ responses' = Append(responses,
                               Response(400, [error |-> <<"Invalid username format.">>]))
            /\ pc' = "done"
       ELSE /\ pc' = "awaiting"
            /\ responses' = responses
    /\ UNCHANGED <<clock, upstream, reply, aux, ageIn, ageOut>>

\* GET /api/stackoverflow/:username up to its first response or its await
GetUsername(username) ==
    /\ pc = "idle"
    /\ req' = [route |-> "username", key |-> username]
    /\ IF username = <<>>
       THEN /\ responses' = Append(responses,
                               Response(400, [error |-> <<"Username is required">>]))
            /\ pc' = "done"
            /\ outbound' = outbound
       ELSE IF ~UsernamePattern(username)
       THEN /\ responses' = Append(responses,
                               Response(400, [error |-> <<"Invalid username format. Stack Overflow usernames must be 1-40 characters using letters, numbers, spaces, or hyphens.">>]))
            /\ pc' = "done"
            /\ outbound' = outbound
       ELSE /\ outbound' = Append(outbound, UsernameCall(username))
            /\ pc' = "awaiting"
            /\ responses' = responses
    /\ UNCHANGED <<clock, upstream, reply, aux, ageIn, ageOut>>

\* GET /api/stackoverflow/id/:user_id up to its first response or its await
GetUserId(user_id) ==
    /\ pc = "idle"
    /\ req' = [route |-> "id", key |-> user_id]
    /\ IF user_id = <<>>
       THEN /\ responses' = Append(responses,
                               Response(400, [error |-> <<"User ID is required">>]))
            /\ pc' = "done"
            /\ outbound' = outbound
       ELSE IF ~UserIdPattern(user_id)
       THEN /\ responses' = Append(responses,
                               Response(400, [error |-> <<"Invalid user ID format. Must be a positive integer.">>]))
            /\ pc' = "done"
            /\ outbound' = outbound
       ELSE /\ outbound' = Append(outbound, UserIdCall(user_id))
            /\ pc' = "awaiting"
            /\ responses' = responses
    /\ UNCHANGED <<clock, upstream, reply, aux, ageIn, ageOut>>

\* variant: a failed call is issued once more instead of being answered
SettleUsernameRetry ==
    /\ pc = "awaiting"
    /\ req.route = "username"
    /\ \E outcome \in Outcomes(upstream) :
         /\ reply' = <<outcome>>
         /\ IF outcome.ok \/ Len(outbound) >= 2
            THEN /\ responses' = Append(responses,
                                    usernameAfterAwait(req.key, outcome, clock, 0))
                 /\ outbound' = outbound
                 /\ pc' = "done"
            ELSE /\ outbound' = Append(outbound, UsernameCall(req.key))
                 /\ responses' = responses
                 /\ pc' = "awaiting"
    /\ UNCHANGED <<clock, upstream, req, aux, ageIn, ageOut>>

\* the awaited call of the username handler settles and the handler runs
\* to its response; the clock may step once between two of its reads
SettleUsername ==
    /\ pc = "awaiting"
    /\ req.route = "username"
    /\ \E outcome \in Outcomes(upstream) :
         \E k \in 0..ClockReads("username", outcome) :
            /\ k < ClockReads("username", outcome) => clock + TickMs \in ClockValues
            /\ reply' = <<outcome>>
            /\ responses' = Append(responses,
                               usernameAfterAwait(req.key, outcome, clock, k))
            /\ clock' = IF k < ClockReads("username", outcome)
                        THEN clock + TickMs ELSE clock
    /\ pc' = "done"
    /\ UNCHANGED <<upstream, req, outbound, aux, ageIn, ageOut>>

\* the awaited call of the user_id handler settles and the handler runs to
\* its response
SettleUserId ==
    /\ pc = "awaiting"
    /\ req.route = "id"
    /\ \E outcome \in Outcomes(upstream) :
         \E k \in 0..ClockReads("id", outcome) :
            /\ k < ClockReads("id", outcome) => clock + TickMs \in ClockValues
            /\ reply' = <<outcome>>
            /\ responses' = Append(responses,
                               userIdAfterAwait(req.key, outcome, clock, k))
            /\ clock' = IF k < ClockReads("id", outcome)
                        THEN clock + TickMs ELSE clock
    /\ pc' = "done"
    /\ UNCHANGED <<upstream, req, outbound, aux, ageIn, ageOut>>

\* GET /
GetRoot ==
    /\ aux' = <<[route |-> "/", status |-> 200,
                 body |-> [text |-> "Stack Overflow User Age Checker API is running"]]>>
    /\ UNCHANGED <<clock, upstream, pc, req, outbound, reply, responses, ageIn, ageOut>>

\* variant: the health endpoint reports the state of the upstream API
GetHealthProbing ==
    /\ aux' = <<[route |-> "/health",
                 status |-> IF upstream = "available" THEN 200 ELSE 503,
                 body |-> [status |-> IF upstream = "available" THEN "healthy"
                                      ELSE "unhealthy",
                           timestamp |-> Now(clock)]]>>
    /\ UNCHANGED <<clock, upstream, pc, req, outbound, reply, responses, ageIn, ageOut>>

\* GET /health
GetHealth ==
    /\ aux' = <<[route |-> "/health", status |-> 200,
                 body |-> [status |-> "healthy", timestamp |-> Now(clock)]]>>
    /\ UNCHANGED <<clock, upstream, pc, req, outbound, reply, responses, ageIn, ageOut>>

\* the request is over; the next one starts from nothing
NextRequest ==
    /\ pc = "done"
    /\ pc' = "idle"
    /\ req' = NoRequest
    /\ outbound' = <<>>
    /\ reply' = <<>>
    /\ responses' = <<>>
    /\ UNCHANGED <<clock, upstream, aux, ageIn, ageOut>>

Next ==
    \/ Tick
    \/ UpstreamChange
    \/ \E username \in UsernameInputs : GetUsername(username)
    \/ \E user_id \in UserIdInputs : GetUserId(user_id)
    \/ SettleUsername
    \/ SettleUserId
    \/ GetRoot
    \/ GetHealth
    \/ NextRequest

Spec == Init /\ [][Next]_vars

\* the awaited call settles (answer, error or timeout) and a request that
\* arrived is handled
FairSpec ==
    /\ Spec
    /\ WF_vars(SettleUsername)
    /\ WF_vars(SettleUserId)

---------------------------------------------------------------------------
(* The age functions called directly *)

AgeInit ==
    /\ clock \in ClockValues
    /\ upstream = "available"
    /\ pc = "idle"
    /\ req = NoRequest
    /\ outbound = <<>>
    /\ reply = <<>>
    /\ responses = <<>>
    /\ aux = <<>>
    /\ ageIn \in AgeCreationDates
    /\ ageOut = <<>>

\* calculateAccountAge(ageIn) and calculateAgeDays(ageIn) at one reading
\* of the clock
CalcAge ==
    /\ ageOut' = <<[at |-> clock,
                    account_age |-> calculateAccountAge(ageIn, clock),
                    age_days |-> calculateAgeDays(ageIn, clock)]>>
    /\ UNCHANGED <<clock, upstream, pc, req, outbound, reply, responses, aux, ageIn>>

AgeNext ==
    \/ Tick
    \/ CalcAge

AgeSpec == AgeInit /\ [][AgeNext]_vars

---------------------------------------------------------------------------
(* Properties *)

\* the response of the finished lookup request
Sent == responses[1]

\* the request has been answered after its awaited call settled
Settled == pc = "done" /\ reply # <<>>

\* the validation the handler of the request's route applies
PassesValidation(r) ==
    IF r.route = "username" THEN r.key # <<>> /\ UsernamePattern(r.key)
    ELSE r.key # <<>> /\ UserIdPattern(r.key)

\* C1: a lookup request whose key fails validation issues no upstream call
\* and is answered 400; an upstream call is issued only for a key that
\* passed validation.
C1_InvalidKeyNeverReachesUpstream ==
    req.route # "none" =>
        /\ ~PassesValidation(req) =>
              /\ outbound = <<>>
              /\ reply = <<>>
              /\ Len(responses) = 1
              /\ Sent.status = 400
        /\ outbound # <<>> => PassesValidation(req)

C1_Witness ==
    /\ pc = "done"
    /\ req.route = "id"
    /\ ~UserIdPattern(req.key)
    /\ outbound = <<>>
    /\ Len(responses) = 1
    /\ Sent.status = 400

\* the username format as stated: 1 to 40 characters, each a letter, a
\* digit, a space or a hyphen
StatedUsernameFormat(username) ==
    /\ Len(username) \in 1..40
    /\ \A i \in 1..Len(username) :
          username[i] \in LowerCase \cup UpperCase \cup Digit \cup {" ", "-"}

\* C2: username validation succeeds exactly for usernames of 1 to 40
\* characters that are letters, digits, spaces or hyphens; every other
\* username is answered 400.
C2_UsernameValidationAsStated ==
    req.route = "username" =>
        /\ outbound # <<>> <=> StatedUsernameFormat(req.key)
        /\ ~StatedUsernameFormat(req.key) =>
              Len(responses) = 1 /\ Sent.status = 400

\* C3: after an upstream failure, upstream status 404 or 400 is answered
\* 404; any other failure is answered with the upstream status when there
\* is one and 500 when there is none, and the body carries the upstream
\* error message and, when the upstream sent one, the raw error body.
C3_UpstreamFailureMapping ==
    (Settled /\ ~reply[1].ok) =>
        LET e == reply[1].error
        IN /\ Len(responses) = 1
           /\ IF e.response # <<>> /\ e.response[1].status \in {404, 400}
              THEN Sent.status = 404
              ELSE /\ Sent.status = IF e.response # <<>>
                                    THEN e.response[1].status ELSE 500
                   /\ Sent.body.error = e.message
                   /\ (e.response # <<>> /\ e.response[1].data # "")
                         => Sent.body.details = e.response[1].data

C3_Witness ==
    /\ Settled
    /\ ~reply[1].ok
    /\ reply[1].error.response # <<>>
    /\ reply[1].error.response[1].status = 503
    /\ reply[1].error.response[1].data # ""
    /\ Sent.status = 503
    /\ Sent.body.details = reply[1].error.response[1].data

\* the candidates of a successful username search
Candidates == reply[1].data.items

\* every candidate carries the fields the upstream contract promises
WellFormed(items) == \A i \in 1..Len(items) : items[i].reputation # <<>>

\* C4: a username search that succeeds with n >= 1 candidates is answered
\* with one profile of confidence High and no note when n = 1, and when
\* n >= 2 with a list of one profile per candidate, in upstream order,
\* each of confidence Medium, and the disambiguation note.
C4_CardinalityShapesResponse ==
    (/\ Settled
     /\ req.route = "username"
     /\ reply[1].ok
     /\ "items" \in DOMAIN reply[1].data
     /\ Len(Candidates) >= 1
     /\ WellFormed(Candidates)) =>
        /\ Len(responses) = 1
        /\ Sent.status = 200
        /\ IF Len(Candidates) = 1
           THEN /\ "users" \notin DOMAIN Sent.body
                /\ "note" \notin DOMAIN Sent.body
                /\ Sent.body.user_id = ToString(Candidates[1].user_id)
                /\ Sent.body.username = Candidates[1].display_name
                /\ Sent.body.estimation_confidence = "High (exact match)"
           ELSE /\ DOMAIN Sent.body = {"users", "note"}
                /\ Len(Sent.body.users) = Len(Candidates)
                /\ \A i \in 1..Len(Candidates) :
                      /\ Sent.body.users[i].user_id = ToString(Candidates[i].user_id)
                      /\ Sent.body.users[i].username = Candidates[i].display_name
                      /\ Sent.body.users[i].estimation_confidence
                            = "Medium (multiple matches found)"
                /\ Sent.body.note = "Multiple users found with similar names. Use the user_id or profile_link to select the correct user."

C4_Witness ==
    /\ Settled
    /\ req.route = "username"
    /\ reply[1].ok
    /\ "items" \in DOMAIN reply[1].data
    /\ Len(Candidates) = 2
    /\ Candidates[1].user_id = 22
    /\ Candidates[2].user_id = 1
    /\ Len(Sent.body.users) = 2
    /\ Sent.body.users[1].user_id = "22"
    /\ Sent.body.users[2].estimation_confidence = "Medium (multiple matches found)"

\* the upstream call succeeded with no match for the route of the request
ZeroMatches ==
    /\ Settled
    /\ reply[1].ok
    /\ IF req.route = "username"
       THEN "items" \notin DOMAIN reply[1].data \/ Len(Candidates) = 0
       ELSE "items" \in DOMAIN reply[1].data /\ Len(Candidates) = 0

\* C5: an upstream call that succeeds with zero matches is answered 404
\* with an error message containing the requested key, and no profile.
C5_ZeroMatchesNotFound ==
    ZeroMatches =>
        /\ Len(responses) = 1
        /\ Sent.status = 404
        /\ DOMAIN Sent.body = {"error"}
        /\ \E i \in 1..Len(Sent.body.error) : Sent.body.error[i] = Str(req.key)
        /\ Sent.body.error[Len(Sent.body.error)] = " not found"

C5_Witness ==
    /\ ZeroMatches
    /\ req.route = "username"
    /\ "items" \in DOMAIN reply[1].data
    /\ Sent.status = 404
    /\ Sent.body.error = <<"Stack Overflow user ", Str(req.key), " not found">>

\* C6: a lookup request issues at most one upstream call and sends at most
\* one response; once answered it has exactly one response, which reports
\* any failure of validation or of the call; and a request awaiting its
\* call is eventually answered.
C6_OneCallOneResponse ==
    /\ [](/\ Len(outbound) <= 1
          /\ Len(responses) <= 1
          /\ pc = "done" => Len(responses) = 1
          /\ pc = "awaiting" => Len(outbound) = 1 /\ responses = <<>>
          /\ (pc = "done" /\ (~PassesValidation(req) \/ (reply # <<>> /\ ~reply[1].ok)))
                => Sent.status >= 400)
    /\ (pc = "awaiting" ~> (pc = "done" /\ Len(responses) = 1))

C6_Witness ==
    /\ Settled
    /\ ~reply[1].ok
    /\ reply[1].error.message = <<"timeout of 5000ms exceeded">>
    /\ Len(outbound) = 1
    /\ Len(responses) = 1
    /\ Sent.status = 500

\* a positive integer with no leading zero, as stated
StatedUserIdFormat(user_id) ==
    /\ Len(user_id) >= 1
    /\ \A i \in 1..Len(user_id) : user_id[i] \in Digit
    /\ user_id[1] # "0"

\* C7: user id validation succeeds exactly for non-empty digit strings
\* whose first digit is 1-9; an id with a leading zero or a non-digit is
\* answered 400.
C7_UserIdValidation ==
    req.route = "id" =>
        /\ outbound # <<>> <=> StatedUserIdFormat(req.key)
        /\ ~StatedUserIdFormat(req.key) =>
              Len(responses) = 1 /\ Sent.status = 400

C7_Witness ==
    /\ req.route = "id"
    /\ req.key = <<"0", "1">>
    /\ outbound = <<>>
    /\ Len(responses) = 1
    /\ Sent.status = 400

\* C8: GET /health answers 200 with status healthy and a timestamp in
\* every state of the upstream API, and handling it issues no upstream call.
C8_HealthIndependentOfUpstream ==
    /\ []((aux # <<>> /\ aux[1].route = "/health") =>
            /\ aux[1].status = 200
            /\ aux[1].body.status = "healthy"
            /\ "timestamp" \in DOMAIN aux[1].body)
    /\ [][(aux' # aux /\ aux'[1].route = "/health") =>
            /\ outbound' = outbound
            /\ aux'[1].status = 200
            /\ aux'[1].body.timestamp = Now(clock)]_vars

C8_Witness ==
    /\ aux # <<>>
    /\ aux[1].route = "/health"
    /\ aux[1].status = 200
    /\ upstream = "timing_out"
    /\ pc = "awaiting"
    /\ Len(outbound) = 1

\* whole seconds from the creation time to the reading of the clock
ElapsedSeconds(createdAt, c) == ClockOrigin + (c \div 1000) - createdAt

\* C9: for a creation time not later than now, accountAge renders
\* days = floor((now - created) / 86400 s), years = floor(days / 365),
\* months = floor((days mod 365) / 30) as "<years> years, <months> months"
\* when years > 0 and "<months> months" otherwise; 400 days render
\* "1 years, 1 months".
C9_AccountAgeRendering ==
    (ageOut # <<>> /\ ElapsedSeconds(ageIn, ageOut[1].at) >= 0) =>
        LET days == ElapsedSeconds(ageIn, ageOut[1].at) \div 86400
            years == days \div 365
            months == (days % 365) \div 30
        IN /\ ageOut[1].account_age =
                 IF years > 0
                 THEN ToString(years) \o " years, " \o ToString(months) \o " months"
                 ELSE ToString(months) \o " months"
           /\ days = 400 => ageOut[1].account_age = "1 years, 1 months"

C9_Witness ==
    /\ ageOut # <<>>
    /\ ElapsedSeconds(ageIn, ageOut[1].at) = 400 * 86400
    /\ ageOut[1].account_age = "1 years, 1 months"

\* the profiles of the response sent
SentProfiles ==
    IF responses = <<>> \/ Sent.status # 200 THEN {}
    ELSE IF "users" \in DOMAIN Sent.body
    THEN {Sent.body.users[i] : i \in 1..Len(Sent.body.users)}
    ELSE {Sent.body}

\* C10: in every profile sent, account_age is the rendering of the day
\* count reported in age_days of the same profile.
C10_AgeFieldsConsistent ==
    \A p \in SentProfiles :
        LET years == p.age_days \div 365
            months == (p.age_days % 365) \div 30
        IN p.account_age =
              IF years > 0
              THEN ToString(years) \o " years, " \o ToString(months) \o " months"
              ELSE ToString(months) \o " months"

====
